---- MODULE Spec2Model ----
(***************************************************************************)
(* method-ray: the flow-based type inference engine.                       *)
(*                                                                         *)
(* The model is the state of one GlobalEnv (VertexManager, MethodRegistry, *)
(* BoxManager, error list) together with the ChangeSet of one AstInstaller,*)
(* driven through their public operations: node allocation, deferred edges,*)
(* method-call installation, builtin registration, add_run and finish().   *)
(* finish() is followed step by step: one deferred edge per CommitEdge,    *)
(* one popped box per RunBox.                                              *)
(***************************************************************************)
EXTENDS Integers, Sequences, FiniteSets, TLC

\* ---------------------------------------------------------------- bounds
MaxNodes == 3     \* nodes allocated before finish() (vertices, sources, return vertices)
MaxBoxes == 2     \* method-call boxes installed
MaxEdges == 1     \* edges deferred into the ChangeSet
MaxHist  == 4     \* add_run calls recorded by the BoxManager harness
MaxRegs  == 3     \* register calls made by the MethodRegistry harness
MaxStmts == 2     \* top-level statements installed by one AstInstaller
MaxCalls == 3     \* add_edge calls made by the VertexManager harness

\* ---------------------------------------------------------------- values
\* Type is a tagged value compared structurally: the tag and the class name
Instance(class_name) == << "Instance", class_name >>
Singleton(class_name) == << "Singleton", class_name >>
Nil == << "Nil", "" >>
Bot == << "Bot", "" >>
None == << "None", "" >>   \* Option::None of a registry lookup
NoBox == -1                \* Option::None of pop_run
NoVertex == -1             \* Option::None of install_node and of a variable lookup
NoClass == ""

\* no box is detached: the placeholder of Option<Box<dyn BoxTrait>>::None
NoBoxRec == [ recv |-> NoVertex, method_name |-> "", ret |-> NoVertex,
              location |-> NoBox, seen_types |-> {} ]

\* no execute_box call is in progress and none has returned yet
Idle == [ phase |-> "idle", id |-> NoBox, box |-> NoBoxRec, result |-> "" ]              \* Option::None of current_class_name
ClassNames == {"String", "Integer", "User", "Object"}
Types == { Instance(c) : c \in ClassNames } \cup { Singleton("String"), Nil, Bot }
LiteralTypes == { Instance("String"), Instance("Integer") }
\* the types new_source is called with by the API-level driver
SourceTypes == LiteralTypes \cup { Bot }
AttrNames == {"name"}
MethodNames == {"upcase", "length"} \cup AttrNames \cup { a \o "=" : a \in AttrNames }
\* the method names of the calls the API-level driver installs
CallNames == {"upcase", "length"}
VarNames == {"x", "y"}
IvarNames == {"@name"}
\* the builtin signatures the driver seeds the registry with
Builtins == { << Instance("String"), "upcase", Instance("String") >>,
              << Instance("String"), "length", Instance("Integer") >> }

VARIABLES
    vertices,        \* VertexManager.vertices : VertexId -> Vertex
    sources,         \* VertexManager.sources  : VertexId -> Type
    next_vertex_id,  \* VertexManager.next_vertex_id
    methods,         \* MethodRegistry.methods : (Type, name) -> return type
    boxes,           \* BoxManager.boxes : BoxId -> MethodCallBox
    run_queue,       \* BoxManager.run_queue
    run_queue_set,   \* BoxManager.run_queue_set
    next_box_id,     \* BoxManager.next_box_id
    type_errors,     \* GlobalEnv.type_errors
    changes,         \* AstInstaller.changes (deferred edges)
    pc,              \* position of the driver: "install", "finish" (inside finish()), "done"
    committed,       \* history: the edges add_edge has been called with
    popped,          \* harness: the result of the last pop_run call
    dropped,         \* harness: the last add_run call named an id that was pending
    hist_added,      \* harness: ids in the order in which they became pending
    hist_popped,     \* harness: ids in the order in which pop_run returned them
    hist_reg,        \* harness: the register calls made so far, in order
    executing,       \* harness: the execute_box call in progress and its detached box
    work,            \* harness: the pending propagate_types calls of an add_edge call
    hist_edges,      \* harness: the add_edge calls made so far, in order
    hist_ins,        \* history: the (vertex, type) pairs each step of finish() inserted
    scopes,          \* ScopeManager: the stack of Scope frames
    lenv,            \* LocalEnv: variable name -> VertexId
    installed,       \* history: the top-level statements install_node was called with
    last             \* history: what the last top-level install_node call returned

vars == << vertices, sources, next_vertex_id, methods, boxes, run_queue,
           run_queue_set, next_box_id, type_errors, changes, pc, committed,
           popped, dropped, hist_added, hist_popped, hist_reg, executing, work,
           hist_edges, hist_ins, scopes, lenv, installed, last >>

api_hist == << popped, dropped, hist_added, hist_popped, hist_reg, executing, work,
              hist_edges >>

harness == << api_hist, hist_ins >>

installer == << scopes, lenv, installed, last >>

\* ---------------------------------------------------------------- helpers
Range(s) == { s[i] : i \in 1 .. Len(s) }

\* all orderings of a finite set, as sequences without repetition
Orderings(S) ==
    { s \in [1 .. Cardinality(S) -> S] : \A i, j \in 1 .. Cardinality(S) : i # j => s[i] # s[j] }

\* ---------------------------------------------------------------- Vertex
\* a fresh Vertex: no type, no downstream
NewVertexRec == [ types |-> [t \in Types |-> {}], next |-> << >> ]

\* the type set of a Vertex: the keys of its types map
TypeKeys(vtx) == { t \in Types : vtx.types[t] # {} }

add_next(vtx, dst) == [vtx EXCEPT !.next = Append(@, dst)]

\* Type::show
show(t) ==
    CASE t[1] = "Instance" -> t[2]
      [] t[1] = "Singleton" -> "singleton(" \o t[2] \o ")"
      [] t[1] = "Nil" -> "nil"
      [] OTHER -> "untyped"

\* the names show can return, in the order of String's comparison (by bytes:
\* capitals before small letters)
NameOrder == << "Integer", "Object", "String", "User", "nil", "singleton(String)", "untyped" >>

NameRank(name) == CHOOSE i \in 1 .. Len(NameOrder) : NameOrder[i] = name

RECURSIVE sort_insert(_, _)
\* name put into a sorted sequence of names
sort_insert(names, name) ==
    IF names = << >> THEN << name >>
    ELSE IF NameRank(name) <= NameRank(Head(names)) THEN << name >> \o names
    ELSE << Head(names) >> \o sort_insert(Tail(names), name)

RECURSIVE sort(_)
sort(names) ==
    IF names = << >> THEN << >> ELSE sort_insert(sort(Tail(names)), Head(names))

RECURSIVE join(_, _)
join(names, sep) ==
    IF names = << >> THEN ""
    ELSE IF Len(names) = 1 THEN names[1]
    ELSE names[1] \o sep \o join(Tail(names), sep)

\* faulty variant: the names are joined in the iteration order of the map
Vertex_show_unsorted(order) ==
    LET names == [i \in 1 .. Len(order) |-> show(order[i])]
    IN  IF names = << >> THEN "untyped"
        ELSE IF Len(names) = 1 THEN names[1]
        ELSE "(" \o join(names, " | ") \o ")"

\* Vertex::show, order being the iteration order of the keys of the types map
Vertex_show(order) ==
    LET names == sort([i \in 1 .. Len(order) |-> show(order[i])])
    IN  IF names = << >> THEN "untyped"
        ELSE IF Len(names) = 1 THEN names[1]
        ELSE "(" \o join(names, " | ") \o ")"

\* faulty variant: the types received are forwarded even when none is new
on_type_added_all(vtx, src_id, added) ==
    [ vtx |-> [vtx EXCEPT !.types = [t \in Types |->
                  IF t \in added THEN vtx.types[t] \cup {src_id} ELSE vtx.types[t]]],
      out |-> [i \in 1 .. Len(vtx.next) |-> << vtx.next[i], added >>] ]

\* records (type, origin) and returns the types that are new for this vertex,
\* paired with each downstream vertex
on_type_added(vtx, src_id, added) ==
    LET new_added == { t \in added : vtx.types[t] = {} }
        vtx2 == [vtx EXCEPT !.types = [t \in Types |->
                     IF t \in added THEN vtx.types[t] \cup {src_id} ELSE vtx.types[t]]]
    IN  [ vtx |-> vtx2,
          out |-> IF new_added = {} THEN << >>
                  ELSE [i \in 1 .. Len(vtx.next) |-> << vtx.next[i], new_added >>] ]

\* ---------------------------------------------------------------- VertexManager
get_types(vs, ss, id) ==
    IF id \in DOMAIN vs THEN TypeKeys(vs[id])
    ELSE IF id \in DOMAIN ss THEN { ss[id] }
    ELSE {}

RECURSIVE propagate_types(_, _, _, _)
RECURSIVE propagate_list(_, _, _)

propagate_list(vs, dst_id, out) ==
    IF out = << >> THEN vs
    ELSE propagate_list(propagate_types(vs, dst_id, Head(out)[1], Head(out)[2]), dst_id, Tail(out))

\* faulty variant: the types are added to the target but not forwarded downstream
propagate_types_shallow(vs, src_id, dst_id, types) ==
    IF dst_id \in DOMAIN vs
    THEN [vs EXCEPT ![dst_id] = on_type_added(vs[dst_id], src_id, types).vtx]
    ELSE vs

\* faulty variant: a target that is no Vertex gets a Vertex entry instead of being skipped
propagate_types_any(vs, src_id, dst_id, types) ==
    IF dst_id \in DOMAIN vs
    THEN LET r == on_type_added(vs[dst_id], src_id, types)
         IN  propagate_list([vs EXCEPT ![dst_id] = r.vtx], dst_id, r.out)
    ELSE vs @@ (dst_id :> on_type_added(NewVertexRec, src_id, types).vtx)

propagate_types(vs, src_id, dst_id, types) ==
    IF dst_id \in DOMAIN vs
    THEN LET r == on_type_added(vs[dst_id], src_id, types)
         IN  propagate_list([vs EXCEPT ![dst_id] = r.vtx], dst_id, r.out)
    ELSE vs

propagate_from(vs, ss, src, dst) ==
    LET types == get_types(vs, ss, src)
    IN  IF types # {} THEN propagate_types(vs, src, dst, types) ELSE vs

\* faulty variant: the destination's type map is replaced, not extended
add_edge_reset(vs, ss, src, dst) ==
    LET vs0 == IF dst \in DOMAIN vs
               THEN [vs EXCEPT ![dst] = [@ EXCEPT !.types = [t \in Types |-> {}]]]
               ELSE vs
        vs1 == IF src \in DOMAIN vs0 THEN [vs0 EXCEPT ![src] = add_next(@, dst)] ELSE vs0
    IN  propagate_from(vs1, ss, src, dst)

add_edge(vs, ss, src, dst) ==
    LET vs1 == IF src \in DOMAIN vs THEN [vs EXCEPT ![src] = add_next(@, dst)] ELSE vs
    IN  propagate_from(vs1, ss, src, dst)

\* ---------------------------------------------------------------- MethodRegistry
\* faulty variant: an entry that exists is kept, the new return type is dropped
register_keep_first(ms, recv_ty, method_name, ret_ty) ==
    IF ms[<< recv_ty, method_name >>] = None
    THEN [ms EXCEPT ![<< recv_ty, method_name >>] = ret_ty]
    ELSE ms

register(ms, recv_ty, method_name, ret_ty) ==
    [ms EXCEPT ![<< recv_ty, method_name >>] = ret_ty]

\* faulty variant: the key is the class name, whatever the tag of the type
resolve_by_class(ms, recv_ty, method_name) ==
    IF recv_ty[2] \in ClassNames
    THEN ms[<< Instance(recv_ty[2]), method_name >>]
    ELSE ms[<< recv_ty, method_name >>]

\* faulty variant: the lookup never finds the entry
resolve_miss(ms, recv_ty, method_name) == None

resolve(ms, recv_ty, method_name) == ms[<< recv_ty, method_name >>]

\* ---------------------------------------------------------------- BoxManager
\* faulty variant: the id is queued without looking at run_queue_set
add_run_nodedup(q, s, box_id) ==
    [ queue |-> Append(q, box_id), set |-> s \cup {box_id} ]

add_run(q, s, box_id) ==
    IF box_id \notin s
    THEN [ queue |-> Append(q, box_id), set |-> s \cup {box_id} ]
    ELSE [ queue |-> q, set |-> s ]

\* faulty variant: the front id is returned but stays queued
pop_run_peek(q, s) ==
    IF q # << >>
    THEN [ id |-> Head(q), queue |-> q, set |-> s ]
    ELSE [ id |-> NoBox, queue |-> q, set |-> s ]

\* faulty variant: the id is taken from the back of the queue
pop_run_back(q, s) ==
    IF q # << >>
    THEN [ id |-> q[Len(q)], queue |-> SubSeq(q, 1, Len(q) - 1), set |-> s \ {q[Len(q)]} ]
    ELSE [ id |-> NoBox, queue |-> q, set |-> s ]

pop_run(q, s) ==
    IF q # << >>
    THEN [ id |-> Head(q), queue |-> Tail(q), set |-> s \ {Head(q)} ]
    ELSE [ id |-> NoBox, queue |-> q, set |-> s ]

\* ---------------------------------------------------------------- Init
Init ==
    /\ vertices = << >>
    /\ sources = << >>
    /\ next_vertex_id = 0
    /\ methods = [k \in Types \X MethodNames |-> None]
    /\ boxes = << >>
    /\ run_queue = << >>
    /\ run_queue_set = {}
    /\ next_box_id = 0
    /\ type_errors = << >>
    /\ changes = << >>
    /\ pc = "install"
    /\ committed = {}
    /\ popped = NoBox
    /\ dropped = FALSE
    /\ hist_added = << >>
    /\ hist_popped = << >>
    /\ hist_reg = << >>
    /\ executing = Idle
    /\ work = << >>
    /\ hist_edges = << >>
    /\ hist_ins = << >>
    /\ scopes = << >>
    /\ lenv = [v \in VarNames |-> NoVertex]
    /\ installed = << >>
    /\ last = NoVertex

\* ---------------------------------------------------------------- installation
\* GlobalEnv.register_builtin_method
Register(sig) ==
    /\ pc = "install"
    /\ methods' = register(methods, sig[1], sig[2], sig[3])
    /\ UNCHANGED << vertices, sources, next_vertex_id, boxes, run_queue, run_queue_set,
                    next_box_id, type_errors, changes, pc, committed, harness, installer >>

\* VertexManager.new_vertex
NewVertex ==
    /\ pc = "install"
    /\ next_vertex_id < MaxNodes
    /\ vertices' = vertices @@ (next_vertex_id :> NewVertexRec)
    /\ next_vertex_id' = next_vertex_id + 1
    /\ UNCHANGED << sources, methods, boxes, run_queue, run_queue_set, next_box_id,
                    type_errors, changes, pc, committed, harness, installer >>

\* VertexManager.new_source
NewSource(ty) ==
    /\ pc = "install"
    /\ next_vertex_id < MaxNodes
    /\ sources' = sources @@ (next_vertex_id :> ty)
    /\ next_vertex_id' = next_vertex_id + 1
    /\ UNCHANGED << vertices, methods, boxes, run_queue, run_queue_set, next_box_id,
                    type_errors, changes, pc, committed, harness, installer >>

\* ChangeSet.add_edge, as the installer calls it for a write
DeferEdge(src, dst) ==
    /\ pc = "install"
    /\ Len(changes) < MaxEdges
    /\ changes' = Append(changes, << src, dst >>)
    /\ UNCHANGED << vertices, sources, next_vertex_id, methods, boxes, run_queue,
                    run_queue_set, next_box_id, type_errors, pc, committed, harness, installer >>

\* install_node on a call node with a receiver: return vertex, box, add_run
InstallCall(recv_vtx, method_name) ==
    /\ pc = "install"
    /\ next_vertex_id < MaxNodes
    /\ next_box_id < MaxBoxes
    /\ LET ret_vtx == next_vertex_id
           box_id == next_box_id
           call_box == [ recv |-> recv_vtx, method_name |-> method_name, ret |-> ret_vtx,
                         location |-> box_id, seen_types |-> {} ]
           r == add_run(run_queue, run_queue_set, box_id)
       IN  /\ vertices' = vertices @@ (ret_vtx :> NewVertexRec)
           /\ next_vertex_id' = next_vertex_id + 1
           /\ next_box_id' = next_box_id + 1
           /\ boxes' = [b \in (DOMAIN boxes) \cup {box_id} |->
                           IF b = box_id THEN call_box ELSE boxes[b]]
           /\ run_queue' = r.queue
           /\ run_queue_set' = r.set
    /\ UNCHANGED << sources, methods, type_errors, changes, pc, committed, harness, installer >>

\* BoxManager.add_run called by the driver
AddRun(box_id) ==
    /\ pc \in {"install", "done"}
    /\ LET r == add_run(run_queue, run_queue_set, box_id)
       IN  /\ run_queue' = r.queue
           /\ run_queue_set' = r.set
    /\ UNCHANGED << vertices, sources, next_vertex_id, methods, boxes, next_box_id,
                    type_errors, changes, pc, committed, harness, installer >>

\* ---------------------------------------------------------------- MethodCallBox
\* the loop of one firing over the new receiver types, in iteration order:
\* a hit allocates a Source of the return type and an edge to the return vertex,
\* a miss records a TypeError, Bot is skipped
RECURSIVE run_types(_, _, _, _)

\* faulty variant: Bot is looked up like any other type
run_types_bot(box, ms, order, acc) ==
    IF order = << >> THEN acc
    ELSE LET t == Head(order)
             info == resolve(ms, t, box.method_name)
             acc2 == IF info # None
                     THEN [acc EXCEPT !.sources = @ @@ (acc.next_id :> info),
                                      !.next_id = @ + 1,
                                      !.edges = Append(@, << acc.next_id, box.ret >>)]
                     ELSE [acc EXCEPT !.errors = Append(@, [ receiver_type |-> t,
                                                             method_name |-> box.method_name,
                                                             location |-> box.location ])]
         IN  run_types(box, ms, Tail(order), acc2)

\* faulty variant: the loop ends at the first member that misses
run_types_abort(box, ms, order, acc) ==
    IF order = << >> THEN acc
    ELSE LET t == Head(order)
             info == resolve(ms, t, box.method_name)
         IN  IF t = Bot THEN run_types(box, ms, Tail(order), acc)
             ELSE IF info # None
             THEN run_types(box, ms, Tail(order),
                            [acc EXCEPT !.sources = @ @@ (acc.next_id :> info),
                                        !.next_id = @ + 1,
                                        !.edges = Append(@, << acc.next_id, box.ret >>)])
             ELSE [acc EXCEPT !.errors = Append(@, [ receiver_type |-> t,
                                                     method_name |-> box.method_name,
                                                     location |-> box.location ])]

\* faulty variant: the loop ends at the first member that resolves
run_types_first_hit(box, ms, order, acc) ==
    IF order = << >> THEN acc
    ELSE LET t == Head(order)
             info == resolve(ms, t, box.method_name)
         IN  IF t = Bot THEN run_types(box, ms, Tail(order), acc)
             ELSE IF info # None
             THEN [acc EXCEPT !.sources = @ @@ (acc.next_id :> info),
                              !.next_id = @ + 1,
                              !.edges = Append(@, << acc.next_id, box.ret >>)]
             ELSE run_types(box, ms, Tail(order),
                            [acc EXCEPT !.errors = Append(@, [ receiver_type |-> t,
                                                               method_name |-> box.method_name,
                                                               location |-> box.location ])])

run_types(box, ms, order, acc) ==
    IF order = << >> THEN acc
    ELSE LET t == Head(order)
             info == resolve(ms, t, box.method_name)
             acc2 == IF t = Bot THEN acc
                     ELSE IF info # None
                     THEN [acc EXCEPT !.sources = @ @@ (acc.next_id :> info),
                                      !.next_id = @ + 1,
                                      !.edges = Append(@, << acc.next_id, box.ret >>)]
                     ELSE [acc EXCEPT !.errors = Append(@, [ receiver_type |-> t,
                                                             method_name |-> box.method_name,
                                                             location |-> box.location ])]
         IN  run_types(box, ms, Tail(order), acc2)

\* faulty variant: every receiver type is processed on every firing
NewTypes_all(box, vs, ss) == get_types(vs, ss, box.recv)

\* the receiver types a firing has to process
NewTypes(box, vs, ss) == get_types(vs, ss, box.recv) \ box.seen_types

\* faulty variant: the firing does not record the types it has processed
MethodCallBox_run_forgets(box, vs, ss, nid, ms, errs, order) ==
    LET acc == run_types(box, ms, order,
                         [ sources |-> ss, next_id |-> nid, errors |-> errs, edges |-> << >> ])
    IN  [ box |-> box,
          sources |-> acc.sources, next_id |-> acc.next_id,
          errors |-> acc.errors, edges |-> acc.edges ]

\* one firing: the box after it, the sources, errors and edges it produced
MethodCallBox_run(box, vs, ss, nid, ms, errs, order) ==
    LET acc == run_types(box, ms, order,
                         [ sources |-> ss, next_id |-> nid, errors |-> errs, edges |-> << >> ])
    IN  [ box |-> [box EXCEPT !.seen_types = @ \cup get_types(vs, ss, box.recv)],
          sources |-> acc.sources, next_id |-> acc.next_id,
          errors |-> acc.errors, edges |-> acc.edges ]

\* ---------------------------------------------------------------- GlobalEnv
RECURSIVE apply_changes(_, _, _)
apply_changes(vs, ss, edges) ==
    IF edges = << >> THEN vs
    ELSE apply_changes(add_edge(vs, ss, Head(edges)[1], Head(edges)[2]), ss, Tail(edges))

\* ---------------------------------------------------------------- finish()
\* the entries a step added to the types maps
Inserted(vs, vs2) ==
    { p \in (DOMAIN vs2) \X Types :
        /\ p[2] \in TypeKeys(vs2[p[1]])
        /\ p[1] \in DOMAIN vs => p[2] \notin TypeKeys(vs[p[1]]) }

record_inserted(hist, vs, vs2) ==
    IF Inserted(vs, vs2) = {} THEN hist ELSE Append(hist, Inserted(vs, vs2))

\* AstInstaller.finish is entered
Finish ==
    /\ pc \in {"install", "done"}
    /\ pc' = "finish"
    /\ UNCHANGED << vertices, sources, next_vertex_id, methods, boxes, run_queue,
                    run_queue_set, next_box_id, type_errors, changes, committed, harness, installer >>

\* apply_changes: one deferred edge is committed through add_edge
CommitEdge ==
    /\ pc = "finish"
    /\ changes # << >>
    /\ vertices' = add_edge(vertices, sources, Head(changes)[1], Head(changes)[2])
    /\ committed' = committed \cup { Head(changes) }
    /\ changes' = Tail(changes)
    /\ hist_ins' = record_inserted(hist_ins, vertices, vertices')
    /\ UNCHANGED << sources, next_vertex_id, methods, boxes, run_queue, run_queue_set,
                    next_box_id, type_errors, pc, api_hist, installer >>

\* run_all: one iteration of the drain loop (pop_run, execute_box, apply_changes)
RunBox ==
    /\ pc = "finish"
    /\ changes = << >>
    /\ run_queue # << >>
    /\ LET p == pop_run(run_queue, run_queue_set)
       IN  /\ run_queue' = p.queue
           /\ run_queue_set' = p.set
           /\ IF p.id \in DOMAIN boxes
              THEN \E order \in Orderings(NewTypes(boxes[p.id], vertices, sources)) :
                     LET r == MethodCallBox_run(boxes[p.id], vertices, sources, next_vertex_id,
                                                methods, type_errors, order)
                     IN  /\ boxes' = [boxes EXCEPT ![p.id] = r.box]
                         /\ sources' = r.sources
                         /\ next_vertex_id' = r.next_id
                         /\ type_errors' = r.errors
                         /\ vertices' = apply_changes(vertices, r.sources, r.edges)
                         /\ committed' = committed \cup Range(r.edges)
              ELSE UNCHANGED << boxes, sources, next_vertex_id, type_errors, vertices, committed >>
    /\ hist_ins' = record_inserted(hist_ins, vertices, vertices')
    /\ UNCHANGED << methods, next_box_id, changes, pc, api_hist, installer >>

\* run_all finds the queue empty and finish() returns
FinishEnd ==
    /\ pc = "finish"
    /\ changes = << >>
    /\ run_queue = << >>
    /\ pc' = "done"
    /\ UNCHANGED << vertices, sources, next_vertex_id, methods, boxes, run_queue,
                    run_queue_set, next_box_id, type_errors, changes, committed, harness, installer >>

Next ==
    \/ \E sig \in Builtins : Register(sig)
    \/ NewVertex
    \/ \E ty \in SourceTypes : NewSource(ty)
    \/ \E src, dst \in 0 .. (next_vertex_id - 1) : DeferEdge(src, dst)
    \/ \E recv \in 0 .. (next_vertex_id - 1), m \in CallNames : InstallCall(recv, m)
    \/ \E id \in DOMAIN boxes : AddRun(id)
    \/ Finish
    \/ CommitEdge
    \/ RunBox
    \/ FinishEnd

Spec == Init /\ [][Next]_vars

\* finish() runs to completion: its commit loop and its drain loop are plain
\* sequential loops, so each of their steps is taken once it is possible
FinishStep == CommitEdge \/ RunBox \/ FinishEnd

FairSpec == Spec /\ WF_vars(FinishStep)

\* ---------------------------------------------------------------- AST
\* a node of the parse tree: its kind, its name (variable, method or class),
\* its child nodes (value, receiver or body statements) and its symbol
\* arguments
Node(kind, name, kids, args) == [ kind |-> kind, name |-> name, kids |-> kids, args |-> args ]

StringNode == Node("string", "", << >>, << >>)
IntegerNode == Node("integer", "", << >>, << >>)
NilNode == Node("nil", "", << >>, << >>)
SelfNode == Node("self", "", << >>, << >>)
OtherNode == Node("other", "", << >>, << >>)
LocalVariableWriteNode(name, value) == Node("local_variable_write", name, << value >>, << >>)
LocalVariableReadNode(name) == Node("local_variable_read", name, << >>, << >>)
InstanceVariableWriteNode(name, value) == Node("instance_variable_write", name, << value >>, << >>)
InstanceVariableReadNode(name) == Node("instance_variable_read", name, << >>, << >>)
CallNode(receiver, name) == Node("call", name, << receiver >>, << >>)
CallNodeNoReceiver(name, args) == Node("call", name, << >>, args)
ClassNode(name, body) == Node("class", name, body, << >>)
DefNode(name, body) == Node("def", name, body, << >>)

\* ---------------------------------------------------------------- ScopeManager
\* a MethodScope carries no instance variables: its instance_vars stays unbound
enter_class(sc, name) ==
    Append(sc, [ kind |-> "class", name |-> name, instance_vars |-> [a \in IvarNames |-> NoVertex] ])

enter_method(sc, name) ==
    Append(sc, [ kind |-> "method", name |-> name, instance_vars |-> [a \in IvarNames |-> NoVertex] ])

exit_scope(sc) == IF sc = << >> THEN sc ELSE SubSeq(sc, 1, Len(sc) - 1)

\* the position of the nearest enclosing ClassScope, 0 when there is none
NearestClass(sc) ==
    LET idx == { i \in 1 .. Len(sc) : sc[i].kind = "class" }
    IN  IF idx = {} THEN 0 ELSE CHOOSE i \in idx : \A j \in idx : j <= i

current_class_name(sc) ==
    IF NearestClass(sc) = 0 THEN NoClass ELSE sc[NearestClass(sc)].name

set_instance_var_in_class(sc, name, vtx) ==
    IF NearestClass(sc) = 0 THEN sc
    ELSE [sc EXCEPT ![NearestClass(sc)].instance_vars[name] = vtx]

lookup_instance_var(sc, name) ==
    IF NearestClass(sc) = 0 THEN NoVertex ELSE sc[NearestClass(sc)].instance_vars[name]

\* ---------------------------------------------------------------- LocalEnv
new_var(le, name, vtx) == [le EXCEPT ![name] = vtx]

get_var(le, name) == le[name]

\* ---------------------------------------------------------------- AstInstaller
\* the environments an AstInstaller works on, as one value
\* hash_first stands for the iteration order of a vertex's types HashMap: the
\* key an iteration yields first when the vertex holds it
Env(hash_first) ==
    [ vertices |-> vertices, sources |-> sources, next_vertex_id |-> next_vertex_id,
      methods |-> methods, boxes |-> boxes, run_queue |-> run_queue,
      run_queue_set |-> run_queue_set, next_box_id |-> next_box_id,
      changes |-> changes, scopes |-> scopes, lenv |-> lenv, hash_first |-> hash_first ]

\* VertexManager.new_vertex / new_source on the environment; the id handed out
\* is the environment's next_vertex_id before the call
new_vertex(e) ==
    [e EXCEPT !.vertices = @ @@ (e.next_vertex_id :> NewVertexRec),
              !.next_vertex_id = @ + 1]

new_source(e, ty) ==
    [e EXCEPT !.sources = @ @@ (e.next_vertex_id :> ty),
              !.next_vertex_id = @ + 1]

LiteralType(kind) ==
    CASE kind = "string" -> Instance("String")
      [] kind = "integer" -> Instance("Integer")
      [] kind = "nil" -> Nil

RECURSIVE install_node(_, _)
RECURSIVE install_statements(_, _)

install_statements(e, stmts) ==
    IF stmts = << >> THEN e
    ELSE install_statements(install_node(e, Head(stmts)).env, Tail(stmts))

install_class_node(e, node) ==
    LET e1 == [e EXCEPT !.scopes = enter_class(@, node.name)]
        e2 == install_statements(e1, node.kids)
    IN  [ env |-> [e2 EXCEPT !.scopes = exit_scope(@)], vtx |-> NoVertex ]

\* faulty variant: the MethodScope is left on the stack
install_def_node_noexit(e, node) ==
    LET e1 == [e EXCEPT !.scopes = enter_method(@, node.name)]
    IN  [ env |-> install_statements(e1, node.kids), vtx |-> NoVertex ]

install_def_node(e, node) ==
    LET e1 == [e EXCEPT !.scopes = enter_method(@, node.name)]
        e2 == install_statements(e1, node.kids)
    IN  [ env |-> [e2 EXCEPT !.scopes = exit_scope(@)], vtx |-> NoVertex ]

\* faulty variant: a read allocates a vertex of its own
install_local_read_fresh(e, node) ==
    [ env |-> new_vertex(e), vtx |-> e.next_vertex_id ]

\* faulty variant: the edge of a write is added to the graph at once
install_local_write_eager(e, node) ==
    LET r == install_node(e, node.kids[1])
    IN  IF r.vtx = NoVertex THEN [ env |-> r.env, vtx |-> NoVertex ]
        ELSE LET var_vtx == r.env.next_vertex_id
                 e1 == new_vertex(r.env)
             IN  [ env |-> [e1 EXCEPT !.lenv = new_var(@, node.name, var_vtx),
                                      !.vertices = add_edge(@, e1.sources, r.vtx, var_vtx)],
                   vtx |-> var_vtx ]

\* faulty variant: the variable gets a vertex of its own, fed by a deferred edge
install_ivar_write_fresh(e, node) ==
    LET r == install_node(e, node.kids[1])
    IN  IF r.vtx = NoVertex THEN [ env |-> r.env, vtx |-> NoVertex ]
        ELSE LET var_vtx == r.env.next_vertex_id
                 e1 == new_vertex(r.env)
             IN  [ env |-> [e1 EXCEPT !.scopes = set_instance_var_in_class(@, node.name, var_vtx),
                                      !.changes = Append(@, << r.vtx, var_vtx >>)],
                   vtx |-> var_vtx ]

\* faulty variant: a variable that is bound keeps its vertex
install_local_write_reuse(e, node) ==
    LET r == install_node(e, node.kids[1])
    IN  IF r.vtx = NoVertex THEN [ env |-> r.env, vtx |-> NoVertex ]
        ELSE IF get_var(r.env.lenv, node.name) # NoVertex
        THEN [ env |-> [r.env EXCEPT !.changes =
                           Append(@, << r.vtx, get_var(r.env.lenv, node.name) >>)],
               vtx |-> get_var(r.env.lenv, node.name) ]
        ELSE LET var_vtx == r.env.next_vertex_id
                 e1 == new_vertex(r.env)
             IN  [ env |-> [e1 EXCEPT !.lenv = new_var(@, node.name, var_vtx),
                                      !.changes = Append(@, << r.vtx, var_vtx >>)],
                   vtx |-> var_vtx ]

\* faulty variant: the value is installed but the variable is not bound
install_ivar_write_unbound(e, node) ==
    LET r == install_node(e, node.kids[1])
    IN  [ env |-> r.env, vtx |-> r.vtx ]

install_ivar_write(e, node) ==
    LET r == install_node(e, node.kids[1])
    IN  IF r.vtx = NoVertex THEN [ env |-> r.env, vtx |-> NoVertex ]
        ELSE [ env |-> [r.env EXCEPT !.scopes = set_instance_var_in_class(@, node.name, r.vtx)],
               vtx |-> r.vtx ]

install_ivar_read(e, node) ==
    [ env |-> e, vtx |-> lookup_instance_var(e.scopes, node.name) ]

install_self(e) ==
    LET class_name == current_class_name(e.scopes)
    IN  [ env |-> new_source(e, Instance(IF class_name # NoClass THEN class_name ELSE "Object")),
          vtx |-> e.next_vertex_id ]

install_local_write(e, node) ==
    LET r == install_node(e, node.kids[1])
    IN  IF r.vtx = NoVertex THEN [ env |-> r.env, vtx |-> NoVertex ]
        ELSE LET var_vtx == r.env.next_vertex_id
                 e1 == new_vertex(r.env)
             IN  [ env |-> [e1 EXCEPT !.lenv = new_var(@, node.name, var_vtx),
                                      !.changes = Append(@, << r.vtx, var_vtx >>)],
                   vtx |-> var_vtx ]

install_local_read(e, node) == [ env |-> e, vtx |-> get_var(e.lenv, node.name) ]

install_literal(e, node) ==
    [ env |-> new_source(e, LiteralType(node.kind)), vtx |-> e.next_vertex_id ]

\* the part of a call node's installation that follows the receiver
install_box(e, recv_vtx, method_name) ==
    LET ret_vtx == e.next_vertex_id
        e1 == new_vertex(e)
        box_id == e1.next_box_id
        call_box == [ recv |-> recv_vtx, method_name |-> method_name, ret |-> ret_vtx,
                      location |-> box_id, seen_types |-> {} ]
        q == add_run(e1.run_queue, e1.run_queue_set, box_id)
    IN  [ env |-> [e1 EXCEPT !.next_box_id = @ + 1,
                             !.boxes = [b \in (DOMAIN e1.boxes) \cup {box_id} |->
                                           IF b = box_id THEN call_box ELSE e1.boxes[b]],
                             !.run_queue = q.queue,
                             !.run_queue_set = q.set],
          vtx |-> ret_vtx ]

\* faulty variant: the box is created but not put on the run queue
install_call_norun(e, node) ==
    IF node.kids = << >> THEN [ env |-> e, vtx |-> NoVertex ]
    ELSE LET r == install_node(e, node.kids[1])
         IN  IF r.vtx = NoVertex THEN [ env |-> r.env, vtx |-> NoVertex ]
             ELSE LET b == install_box(r.env, r.vtx, node.name)
                  IN  [ env |-> [b.env EXCEPT !.run_queue = r.env.run_queue,
                                              !.run_queue_set = r.env.run_queue_set],
                        vtx |-> b.vtx ]

\* faulty variant: a call without receiver is installed as a call on self
install_call_implicit_self(e, node) ==
    LET r == IF node.kids = << >> THEN install_self(e) ELSE install_node(e, node.kids[1])
    IN  IF r.vtx = NoVertex THEN [ env |-> r.env, vtx |-> NoVertex ]
        ELSE install_box(r.env, r.vtx, node.name)

install_call(e, node) ==
    IF node.kids = << >> THEN [ env |-> e, vtx |-> NoVertex ]
    ELSE LET r == install_node(e, node.kids[1])
         IN  IF r.vtx = NoVertex THEN [ env |-> r.env, vtx |-> NoVertex ]
             ELSE install_box(r.env, r.vtx, node.name)

\* ---------------------------------------------------------------- attr_methods
\* v.types.keys().next() of the vertex bound to an instance variable: Bot when
\* the variable is unbound, bound to a Source, or its vertex holds no type
first_type(e, ivar_name) ==
    LET vtx == lookup_instance_var(e.scopes, ivar_name)
    IN  IF vtx = NoVertex \/ vtx \notin DOMAIN e.vertices THEN Bot
        ELSE LET keys == TypeKeys(e.vertices[vtx])
             IN  IF keys = {} THEN Bot
                 ELSE IF e.hash_first \in keys THEN e.hash_first
                 ELSE CHOOSE t \in keys : TRUE

RECURSIVE attr_reader_loop(_, _, _)
attr_reader_loop(e, class_name, attr_names) ==
    IF attr_names = << >> THEN e
    ELSE LET attr_name == Head(attr_names)
             return_type == first_type(e, "@" \o attr_name)
         IN  attr_reader_loop(
                 [e EXCEPT !.methods = register(@, Instance(class_name), attr_name, return_type)],
                 class_name, Tail(attr_names))

process_attr_reader(e, node) ==
    IF current_class_name(e.scopes) = NoClass THEN e
    ELSE attr_reader_loop(e, current_class_name(e.scopes), node.args)

RECURSIVE attr_writer_loop(_, _, _)
attr_writer_loop(e, class_name, attr_names) ==
    IF attr_names = << >> THEN e
    ELSE attr_writer_loop(
             [e EXCEPT !.methods = register(@, Instance(class_name), Head(attr_names) \o "=", Bot)],
             class_name, Tail(attr_names))

\* faulty variant: without a class the setter is registered on Object
process_attr_writer_on_object(e, node) ==
    attr_writer_loop(e, IF current_class_name(e.scopes) = NoClass THEN "Object"
                        ELSE current_class_name(e.scopes), node.args)

process_attr_writer(e, node) ==
    IF current_class_name(e.scopes) = NoClass THEN e
    ELSE attr_writer_loop(e, current_class_name(e.scopes), node.args)

\* faulty variant: attr_accessor registers the getter only
process_attr_accessor_reader_only(e, node) == process_attr_reader(e, node)

process_attr_accessor(e, node) == process_attr_writer(process_attr_reader(e, node), node)

\* whether the call node was an attribute declaration, and the environment after it
try_process_attr_method(e, node) ==
    IF node.kids # << >> THEN [ handled |-> FALSE, env |-> e ]
    ELSE CASE node.name = "attr_reader" -> [ handled |-> TRUE, env |-> process_attr_reader(e, node) ]
           [] node.name = "attr_writer" -> [ handled |-> TRUE, env |-> process_attr_writer(e, node) ]
           [] node.name = "attr_accessor" -> [ handled |-> TRUE, env |-> process_attr_accessor(e, node) ]
           [] OTHER -> [ handled |-> FALSE, env |-> e ]

\* the installer's treatment of a call node: an attribute declaration is
\* handed to attr_methods and yields no node, any other call is installed
dispatch_call(e, node) ==
    LET a == try_process_attr_method(e, node)
    IN  IF a.handled THEN [ env |-> a.env, vtx |-> NoVertex ]
        ELSE install_call(e, node)

install_node(e, node) ==
    CASE node.kind = "class" -> install_class_node(e, node)
      [] node.kind = "def" -> install_def_node(e, node)
      [] node.kind = "instance_variable_write" -> install_ivar_write(e, node)
      [] node.kind = "instance_variable_read" -> install_ivar_read(e, node)
      [] node.kind = "self" -> install_self(e)
      [] node.kind = "local_variable_write" -> install_local_write(e, node)
      [] node.kind = "local_variable_read" -> install_local_read(e, node)
      [] node.kind \in {"string", "integer", "nil"} -> install_literal(e, node)
      [] node.kind = "call" -> dispatch_call(e, node)
      [] OTHER -> [ env |-> e, vtx |-> NoVertex ]

\* ---------------------------------------------------------------- programs
\* class User with @name written in initialize and read as a receiver in greet
ClassWithIvar(value) ==
    ClassNode("User",
        << DefNode("initialize", << InstanceVariableWriteNode("@name", value) >>),
           DefNode("greet", << CallNode(InstanceVariableReadNode("@name"), "upcase") >>) >>)

\* the same class with an attr_reader declaration between the two methods
ClassWithIvarAttr(value) ==
    ClassNode("User",
        << DefNode("initialize", << InstanceVariableWriteNode("@name", value) >>),
           CallNodeNoReceiver("attr_reader", << "name" >>),
           DefNode("test", << LocalVariableWriteNode("x",
                                  CallNode(InstanceVariableReadNode("@name"), "upcase")) >>) >>)

\* class User with @name written in two methods and read as a receiver in a third
ClassTwoWrites(first, second) ==
    ClassNode("User",
        << DefNode("initialize", << InstanceVariableWriteNode("@name", first) >>),
           DefNode("rename", << InstanceVariableWriteNode("@name", second) >>),
           DefNode("greet", << CallNode(InstanceVariableReadNode("@name"), "upcase") >>) >>)

\* def run; x = 123; x = puts; x.upcase; end
UnmodelledRewrite ==
    DefNode("run", << LocalVariableWriteNode("x", IntegerNode),
                      LocalVariableWriteNode("x", CallNodeNoReceiver("puts", << >>)),
                      CallNode(LocalVariableReadNode("x"), "upcase") >>)

\* def run; x = "s"; y = x.upcase; x = 1; end
ReadThenRewrite ==
    DefNode("run", << LocalVariableWriteNode("x", StringNode),
                      LocalVariableWriteNode("y", CallNode(LocalVariableReadNode("x"), "upcase")),
                      LocalVariableWriteNode("x", IntegerNode) >>)

\* definitions with empty bodies, nested in one another, and with a body of
\* nodes the installer does not model
Definitions ==
    { ClassNode("User", << >>),
      DefNode("greet", << >>),
      ClassNode("User", << ClassNode("Object", << DefNode("greet", << OtherNode >>) >>),
                           DefNode("initialize", << DefNode("greet", << >>) >>),
                           OtherNode >>) }

\* class User whose body is one attribute declaration
ClassWithAttr(decl) == ClassNode("User", << CallNodeNoReceiver(decl, << "name" >>) >>)

AttrDecls == {"attr_reader", "attr_writer", "attr_accessor"}

\* y = x.upcase.length
ChainStmt ==
    LocalVariableWriteNode("y", CallNode(CallNode(LocalVariableReadNode("x"), "upcase"), "length"))

\* the statements a program is made of
TopLevel ==
    { LocalVariableWriteNode("x", StringNode),
      LocalVariableWriteNode("x", IntegerNode),
      ChainStmt,
      CallNode(LocalVariableReadNode("x"), "upcase"),
      CallNode(SelfNode, "name"),
      CallNodeNoReceiver("puts", << >>),
      ClassNode("User", << DefNode("greet", << CallNodeNoReceiver("puts", << >>) >>) >>),
      LocalVariableReadNode("x"),
      LocalVariableReadNode("y"),
      DefNode("greet", << CallNodeNoReceiver("attr_accessor", << "name" >>) >>),
      OtherNode }
    \cup { CallNodeNoReceiver(d, << "name" >>) : d \in AttrDecls }
    \cup { ClassWithIvar(v) : v \in {StringNode, IntegerNode} }
    \cup { ClassWithIvarAttr(v) : v \in {StringNode, IntegerNode} }
    \cup { ClassWithAttr(d) : d \in AttrDecls }
    \cup { ClassTwoWrites(v, w) : v, w \in {StringNode, IntegerNode} }
    \cup { UnmodelledRewrite, ReadThenRewrite }
    \cup Definitions

\* one call of install_node on a top-level statement, as the driver makes it
InstallStmt(node) ==
    /\ pc = "install"
    /\ Len(installed) < MaxStmts
    /\ \E hash_first \in Types :
       LET r == install_node(Env(hash_first), node)
       IN  /\ vertices' = r.env.vertices
           /\ sources' = r.env.sources
           /\ next_vertex_id' = r.env.next_vertex_id
           /\ methods' = r.env.methods
           /\ boxes' = r.env.boxes
           /\ run_queue' = r.env.run_queue
           /\ run_queue_set' = r.env.run_queue_set
           /\ next_box_id' = r.env.next_box_id
           /\ changes' = r.env.changes
           /\ scopes' = r.env.scopes
           /\ lenv' = r.env.lenv
           /\ last' = r.vtx
    /\ installed' = Append(installed, node)
    /\ UNCHANGED << type_errors, pc, committed, harness >>

\* the state in which the driver starts installing: empty environments and the
\* registry seeded with the builtin signatures
InitAst ==
    /\ vertices = << >>
    /\ sources = << >>
    /\ next_vertex_id = 0
    /\ methods = register(register([k \in Types \X MethodNames |-> None],
                                   Instance("String"), "upcase", Instance("String")),
                          Instance("String"), "length", Instance("Integer"))
    /\ boxes = << >>
    /\ run_queue = << >>
    /\ run_queue_set = {}
    /\ next_box_id = 0
    /\ type_errors = << >>
    /\ changes = << >>
    /\ pc = "install"
    /\ committed = {}
    /\ popped = NoBox
    /\ dropped = FALSE
    /\ hist_added = << >>
    /\ hist_popped = << >>
    /\ hist_reg = << >>
    /\ executing = Idle
    /\ work = << >>
    /\ hist_edges = << >>
    /\ hist_ins = << >>
    /\ scopes = << >>
    /\ lenv = [v \in VarNames |-> NoVertex]
    /\ installed = << >>
    /\ last = NoVertex

\* the driver of one analysis: install the top-level statements, then finish()
NextAst ==
    \/ \E node \in TopLevel : InstallStmt(node)
    \/ Finish
    \/ CommitEdge
    \/ RunBox
    \/ FinishEnd

SpecAst == InitAst /\ [][NextAst]_vars

\* ---------------------------------------------------------------- BoxManager harness
\* the run queue driven directly through add_run and pop_run, as the unit
\* tests of box_manager.rs do
HarnessIds == 0 .. MaxBoxes

Count(seq, x) == Cardinality({ i \in 1 .. Len(seq) : seq[i] = x })

\* x has been added more often than it has been returned
IsPending(x) == Count(hist_added, x) > Count(hist_popped, x)

ApiAddRun(box_id) ==
    /\ IsPending(box_id) \/ Len(hist_added) < MaxHist
    /\ LET r == add_run(run_queue, run_queue_set, box_id)
       IN  /\ run_queue' = r.queue
           /\ run_queue_set' = r.set
    /\ hist_added' = IF IsPending(box_id) THEN hist_added ELSE Append(hist_added, box_id)
    /\ dropped' = IsPending(box_id)
    /\ UNCHANGED << vertices, sources, next_vertex_id, methods, boxes, next_box_id,
                    type_errors, changes, pc, committed, popped, hist_popped, hist_reg,
                    executing, work, hist_edges, hist_ins, installer >>

ApiPopRun ==
    /\ LET p == pop_run(run_queue, run_queue_set)
       IN  /\ run_queue' = p.queue
           /\ run_queue_set' = p.set
           /\ popped' = p.id
           /\ hist_popped' = IF p.id # NoBox THEN Append(hist_popped, p.id) ELSE hist_popped
    /\ UNCHANGED << vertices, sources, next_vertex_id, methods, boxes, next_box_id,
                    type_errors, changes, pc, committed, dropped, hist_added, hist_reg,
                    executing, work, hist_edges, hist_ins, installer >>

NextBM ==
    \/ \E id \in HarnessIds : ApiAddRun(id)
    \/ ApiPopRun

SpecBM == Init /\ [][NextBM]_vars

\* ---------------------------------------------------------------- execute_box harness
\* boxes registered, detached and reattached while the run queue is driven, as
\* a caller of the public BoxManager API may do

\* BoxManager.register: the box is stored under the next id
register_box(bs, id, b) == [ x \in (DOMAIN bs) \cup {id} |-> IF x = id THEN b ELSE bs[x] ]

\* BoxManager.remove (and the detachment of execute_box): HashMap::remove
remove(bs, id) == [ x \in (DOMAIN bs) \ {id} |-> bs[x] ]

\* faulty variant: the detached box is dropped instead of being put back
insert_lost(bs, id, b) == bs

\* BoxManager.insert (and the reattachment of execute_box): HashMap::insert
insert(bs, id, b) == [ x \in (DOMAIN bs) \cup {id} |-> IF x = id THEN b ELSE bs[x] ]

ApiRegisterBox(method_name) ==
    /\ next_box_id < MaxBoxes
    /\ boxes' = register_box(boxes, next_box_id,
                             [ recv |-> NoVertex, method_name |-> method_name, ret |-> NoVertex,
                               location |-> next_box_id, seen_types |-> {} ])
    /\ next_box_id' = next_box_id + 1
    /\ UNCHANGED << vertices, sources, next_vertex_id, methods, run_queue, run_queue_set,
                    type_errors, changes, pc, committed, harness, installer >>

\* execute_box is entered: the box is taken out of the map, or the call
\* returns None at once when the id is not registered
ExecuteBegin(box_id) ==
    /\ executing.phase = "idle"
    /\ IF box_id \in DOMAIN boxes
       THEN /\ boxes' = remove(boxes, box_id)
            /\ executing' = [ phase |-> "running", id |-> box_id, box |-> boxes[box_id],
                              result |-> "" ]
       ELSE /\ boxes' = boxes
            /\ executing' = [ phase |-> "idle", id |-> box_id, box |-> NoBoxRec,
                              result |-> "None" ]
    /\ UNCHANGED << vertices, sources, next_vertex_id, methods, run_queue, run_queue_set,
                    next_box_id, type_errors, changes, pc, committed,
                    popped, dropped, hist_added, hist_popped, hist_reg, work, hist_edges,
                    hist_ins, installer >>

\* the executor mutates the detached box
ExecutorRun(ty) ==
    /\ executing.phase = "running"
    /\ ty \notin executing.box.seen_types
    /\ executing' = [executing EXCEPT !.box.seen_types = @ \cup {ty}]
    /\ UNCHANGED << vertices, sources, next_vertex_id, methods, boxes, run_queue, run_queue_set,
                    next_box_id, type_errors, changes, pc, committed,
                    popped, dropped, hist_added, hist_popped, hist_reg, work, hist_edges,
                    hist_ins, installer >>

\* the executor has returned: the box is put back under its id and the call
\* returns Some(changes)
ExecuteEnd ==
    /\ executing.phase = "running"
    /\ boxes' = insert(boxes, executing.id, executing.box)
    /\ executing' = [ phase |-> "idle", id |-> executing.id, box |-> NoBoxRec,
                      result |-> "Some" ]
    /\ UNCHANGED << vertices, sources, next_vertex_id, methods, run_queue, run_queue_set,
                    next_box_id, type_errors, changes, pc, committed,
                    popped, dropped, hist_added, hist_popped, hist_reg, work, hist_edges,
                    hist_ins, installer >>

NextEx ==
    \/ ApiRegisterBox("upcase")
    \/ \E id \in HarnessIds : ApiAddRun(id)
    \/ ApiPopRun
    \/ \E id \in HarnessIds : ExecuteBegin(id)
    \/ ExecutorRun(Instance("String"))
    \/ ExecuteEnd

SpecEx == Init /\ [][NextEx]_vars

\* ---------------------------------------------------------------- VertexManager harness
\* the graph driven directly through new_vertex, new_source and add_edge, as the
\* unit tests of vertex_manager.rs do, with the recursion of propagate_types
\* unfolded: work is the stack of the calls still to be made, next call first
VmSourceTypes == { Instance("String"), Instance("Integer"), Nil }

\* more calls than one add_edge can make: each Vertex forwards each type once
StackCap == MaxNodes * Cardinality(VmSourceTypes) * MaxCalls

IsNode(id) == id \in DOMAIN vertices \/ id \in DOMAIN sources

\* faulty variant: a src that is no node gets a Vertex entry holding the edge
record_edge_insert(vs, src, dst) ==
    IF src \in DOMAIN vs THEN [vs EXCEPT ![src] = add_next(@, dst)]
    ELSE vs @@ (src :> add_next(NewVertexRec, dst))

\* faulty variant: the edge is not recorded
record_edge_skip(vs, src, dst) == vs

\* add_edge, first half: the edge is recorded when src is a Vertex
record_edge(vs, src, dst) ==
    IF src \in DOMAIN vs THEN [vs EXCEPT ![src] = add_next(@, dst)] ELSE vs

\* propagate_from: the call of propagate_types it makes, if any
propagate_from_calls(vs, ss, src, dst) ==
    LET types == get_types(vs, ss, src)
    IN  IF types # {} THEN << [ src_id |-> src, dst_id |-> dst, types |-> types ] >>
        ELSE << >>

\* faulty variant: the types received are forwarded, new to the target or not
propagate_step_all(vs, call) ==
    IF call.dst_id \in DOMAIN vs
    THEN LET r == on_type_added(vs[call.dst_id], call.src_id, call.types)
         IN  [ vs |-> [vs EXCEPT ![call.dst_id] = r.vtx],
               calls |-> [i \in 1 .. Len(vs[call.dst_id].next) |->
                            [ src_id |-> call.dst_id, dst_id |-> vs[call.dst_id].next[i],
                              types |-> call.types ]] ]
    ELSE [ vs |-> vs, calls |-> << >> ]

\* one call of propagate_types: the graph after on_type_added and the
\* recursive calls it makes, in order
propagate_step(vs, call) ==
    IF call.dst_id \in DOMAIN vs
    THEN LET r == on_type_added(vs[call.dst_id], call.src_id, call.types)
         IN  [ vs |-> [vs EXCEPT ![call.dst_id] = r.vtx],
               calls |-> [i \in 1 .. Len(r.out) |->
                            [ src_id |-> call.dst_id, dst_id |-> r.out[i][1],
                              types |-> r.out[i][2] ]] ]
    ELSE [ vs |-> vs, calls |-> << >> ]

VmNewVertex == work = << >> /\ NewVertex

VmNewSource(ty) == work = << >> /\ NewSource(ty)

\* add_edge is called: the edge is recorded and propagate_from makes the first call
ApiAddEdge(src, dst) ==
    /\ work = << >>
    /\ Len(hist_edges) < MaxCalls
    /\ vertices' = record_edge(vertices, src, dst)
    /\ work' = propagate_from_calls(vertices', sources, src, dst)
    /\ hist_edges' = Append(hist_edges, [ src |-> src, dst |-> dst, known |-> IsNode(src) ])
    /\ UNCHANGED << sources, next_vertex_id, methods, boxes, run_queue, run_queue_set,
                    next_box_id, type_errors, changes, pc, committed,
                    popped, dropped, hist_added, hist_popped, hist_reg, executing, hist_ins, installer >>

\* the next pending call of propagate_types is made
PropagateStep ==
    /\ work # << >>
    /\ Len(work) <= StackCap
    /\ LET r == propagate_step(vertices, Head(work))
       IN  /\ vertices' = r.vs
           /\ work' = r.calls \o Tail(work)
    /\ UNCHANGED << sources, next_vertex_id, methods, boxes, run_queue, run_queue_set,
                    next_box_id, type_errors, changes, pc, committed,
                    popped, dropped, hist_added, hist_popped, hist_reg, executing,
                    hist_edges, hist_ins, installer >>

NextVM ==
    \/ VmNewVertex
    \/ \E ty \in VmSourceTypes : VmNewSource(ty)
    \/ \E src \in 0 .. next_vertex_id, dst \in DOMAIN vertices : ApiAddEdge(src, dst)
    \/ PropagateStep

SpecVM == Init /\ [][NextVM]_vars

FairSpecVM == SpecVM /\ WF_vars(PropagateStep)

\* ---------------------------------------------------------------- MethodRegistry harness
\* the registry driven directly through register, as the unit tests of
\* method_registry.rs do
RegRecvTypes == { Instance("String"), Instance("Integer"), Singleton("String"), Nil, Bot }
RegNames == {"upcase", "length"}
RegRetTypes == { Instance("String"), Instance("Integer") }

ApiRegister(recv_ty, method_name, ret_ty) ==
    /\ Len(hist_reg) < MaxRegs
    /\ methods' = register(methods, recv_ty, method_name, ret_ty)
    /\ hist_reg' = Append(hist_reg, << recv_ty, method_name, ret_ty >>)
    /\ UNCHANGED << vertices, sources, next_vertex_id, boxes, run_queue, run_queue_set,
                    next_box_id, type_errors, changes, pc, committed,
                    popped, dropped, hist_added, hist_popped, executing, work, hist_edges,
                    hist_ins, installer >>

NextMR ==
    \E recv_ty \in RegRecvTypes, method_name \in RegNames, ret_ty \in RegRetTypes :
        ApiRegister(recv_ty, method_name, ret_ty)

SpecMR == Init /\ [][NextMR]_vars

\* ---------------------------------------------------------------- properties
\* finish() has returned and nothing has been enqueued since
Quiescent == pc = "done" /\ run_queue = << >>

HasError(t, m, loc) ==
    \E i \in 1 .. Len(type_errors) :
        type_errors[i] = [ receiver_type |-> t, method_name |-> m, location |-> loc ]

\* the call site b has dealt with the receiver type t
CallSiteChecked(b, t) ==
    \/ /\ methods[<< t, boxes[b].method_name >>] # None
       /\ methods[<< t, boxes[b].method_name >>] \in get_types(vertices, sources, boxes[b].ret)
    \/ HasError(t, boxes[b].method_name, boxes[b].location)

\* C1: at quiescence every non-Bot type held by the receiver of every
\* MethodCallBox is either resolved, with the return type in the return vertex,
\* or reported in the error list, also when the type reached the receiver after
\* the box's first firing.
C1_EveryReceiverTypeChecked ==
    Quiescent =>
        \A b \in DOMAIN boxes :
            \A t \in get_types(vertices, sources, boxes[b].recv) \ {Bot} : CallSiteChecked(b, t)

\* C2: every entry of the error list is justified by a call site with that
\* method name and location whose receiver holds the non-Bot type and for which
\* the registry has no entry; a call site whose receiver types all resolve
\* contributes no entry.
C2_ErrorsJustified ==
    /\ \A i \in 1 .. Len(type_errors) :
          LET e == type_errors[i]
          IN  /\ e.receiver_type # Bot
              /\ \E b \in DOMAIN boxes :
                    /\ boxes[b].method_name = e.method_name
                    /\ boxes[b].location = e.location
                    /\ e.receiver_type \in get_types(vertices, sources, boxes[b].recv)
                    /\ methods[<< e.receiver_type, e.method_name >>] = None
    /\ \A b \in DOMAIN boxes :
          (\A t \in get_types(vertices, sources, boxes[b].recv) :
                methods[<< t, boxes[b].method_name >>] # None)
          => ~ \E i \in 1 .. Len(type_errors) : type_errors[i].location = boxes[b].location

\* one failing and one succeeding call site, both fired: exactly one TypeError
C2_Witness ==
    /\ Quiescent
    /\ Len(type_errors) = 1
    /\ \E b1, b2 \in DOMAIN boxes :
          /\ type_errors[1].location = boxes[b1].location
          /\ boxes[b2].seen_types # {}
          /\ \A t \in boxes[b2].seen_types : methods[<< t, boxes[b2].method_name >>] # None
          /\ get_types(vertices, sources, boxes[b2].ret) # {}

\* C3: a type that is in the type set of a Vertex stays in it across every
\* step (add_edge, propagation, box firing).
C3_Monotone ==
    [][ \A v \in DOMAIN vertices :
            /\ v \in DOMAIN vertices'
            /\ TypeKeys(vertices[v]) \subseteq TypeKeys(vertices'[v]) ]_vars

\* a vertex holding two types that reached it from different upstream nodes
C3_Witness ==
    \E v \in DOMAIN vertices :
        /\ Cardinality(TypeKeys(vertices[v])) = 2
        /\ \E t1, t2 \in TypeKeys(vertices[v]) : vertices[v].types[t1] # vertices[v].types[t2]

\* C4: at quiescence, for every committed edge u -> v with v a Vertex, every
\* type of u (Vertex or Source) is in the type set of v.
C4_EdgeClosure ==
    Quiescent =>
        \A e \in committed :
            e[2] \in DOMAIN vertices
            => get_types(vertices, sources, e[1]) \subseteq TypeKeys(vertices[e[2]])

\* an edge out of a box's return vertex, committed before the box fired: the
\* types of the return vertex arrived after the edge was added
C4_Witness ==
    /\ Quiescent
    /\ \E e \in committed, b \in DOMAIN boxes :
          /\ e[1] = boxes[b].ret
          /\ e[2] \in DOMAIN vertices
          /\ e[2] # e[1]
          /\ TypeKeys(vertices[e[1]]) # {}
          /\ \E t \in Types : e[1] \in vertices[e[2]].types[t]

\* C5: a Source keeps the type it was created with across every step, no
\* Vertex entry appears under its id, and its type set is that one type, also
\* after add_edge calls that name it as destination.
C5_SourceFixed ==
    [][ \A s \in DOMAIN sources :
            /\ s \in DOMAIN sources'
            /\ sources'[s] = sources[s]
            /\ s \notin DOMAIN vertices'
            /\ get_types(vertices', sources', s) = { sources[s] } ]_vars

\* an edge whose destination is a Source and whose origin holds a type has
\* been committed
C5_Witness ==
    \E e \in committed :
        /\ e[2] \in DOMAIN sources
        /\ get_types(vertices, sources, e[1]) # {}
        /\ get_types(vertices, sources, e[1]) # { sources[e[2]] }

\* C6: finish() terminates: once entered it returns, and the run queue is
\* empty when it returns.
C6_FinishTerminates ==
    (pc = "finish") ~> (pc = "done" /\ run_queue = << >>)

\* finish() has returned after committing an edge and firing a box
C6_Witness ==
    /\ Quiescent
    /\ committed # {}
    /\ \E b \in DOMAIN boxes : boxes[b].seen_types # {}

\* C7: no BoxId occurs twice in run_queue, run_queue_set is the set of ids in
\* run_queue, and add_run of a pending id leaves the queue as it is.
C7_QueueDedup ==
    /\ \A i, j \in 1 .. Len(run_queue) : i # j => run_queue[i] # run_queue[j]
    /\ run_queue_set = Range(run_queue)
    /\ \A id \in run_queue_set :
          LET r == add_run(run_queue, run_queue_set, id)
          IN  r.queue = run_queue /\ r.set = run_queue_set

\* the last add_run call named an id that was already pending, while two ids
\* are queued and one of them had been popped and added again before
C7_Witness ==
    /\ dropped
    /\ Len(run_queue) >= 2
    /\ hist_popped # << >>
    /\ \E x \in Range(run_queue) : Count(hist_added, x) >= 2

\* C8: the run queue is FIFO: what pop_run has returned, followed by what is
\* still queued, is the sequence of ids in the order in which they became
\* pending; pop_run on an empty queue returns None and changes nothing.
C8_Fifo ==
    /\ hist_added = hist_popped \o run_queue
    /\ LET p == pop_run(run_queue, run_queue_set)
       IN  run_queue = << >> => (p.id = NoBox /\ p.queue = run_queue /\ p.set = run_queue_set)
    /\ (popped # NoBox => hist_popped # << >> /\ popped = hist_popped[Len(hist_popped)])

\* an id that was popped has been added again and stands behind an id that
\* became pending before it
C8_Witness ==
    /\ Len(run_queue) >= 2
    /\ hist_popped # << >>
    /\ run_queue[Len(run_queue)] \in Range(hist_popped)
    /\ popped # NoBox

\* C9: no TypeError of one call site is recorded twice for the same
\* (receiver_type, method_name), however often the box fires.
C9_ErrorOnce ==
    \A i, j \in 1 .. Len(type_errors) : i # j => type_errors[i] # type_errors[j]

\* a box with a recorded error has fired again: it has processed a type that
\* only its own earlier firing could bring to its receiver
C9_Witness ==
    \E b \in DOMAIN boxes :
        /\ boxes[b].recv \in DOMAIN vertices
        /\ \E i \in 1 .. Len(type_errors) : type_errors[i].location = boxes[b].location
        /\ \E t \in boxes[b].seen_types :
              /\ vertices[boxes[b].recv].types[t] = { boxes[b].ret }
              /\ boxes[b].ret # boxes[b].recv

\* C10: a finish() that starts at quiescence, and a firing of a box whose
\* receiver holds no type the box has not seen, leave the error list, the
\* vertices (type sets and next lists), the sources, the registry and the
\* boxes unchanged; the re-run finish() also leaves the run queue unchanged.
C10_Idempotent ==
    [][ /\ ( /\ pc \in {"done", "finish"}
             /\ run_queue = << >>
             /\ changes = << >>
             /\ pc' # pc )
           => UNCHANGED << type_errors, vertices, sources, next_vertex_id, methods, boxes,
                           run_queue, run_queue_set, changes >>
        /\ ( /\ pc = "finish"
             /\ pc' = "finish"
             /\ changes = << >>
             /\ run_queue # << >>
             /\ Head(run_queue) \in DOMAIN boxes
             /\ get_types(vertices, sources, boxes[Head(run_queue)].recv)
                    \subseteq boxes[Head(run_queue)].seen_types )
           => UNCHANGED << type_errors, vertices, sources, next_vertex_id, methods, boxes >>
      ]_vars

\* inside a finish() that follows quiescence: the box at the head of the queue
\* has fired before, has an error recorded and its receiver holds nothing new
C10_Witness ==
    /\ pc = "finish"
    /\ changes = << >>
    /\ run_queue # << >>
    /\ Head(run_queue) \in DOMAIN boxes
    /\ LET box == boxes[Head(run_queue)]
       IN  /\ box.seen_types # {}
           /\ get_types(vertices, sources, box.recv) \subseteq box.seen_types
           /\ \E i \in 1 .. Len(type_errors) : type_errors[i].location = box.location

\* the drain loop is about to fire the box at the head of the run queue
FiringNext ==
    /\ pc = "finish"
    /\ changes = << >>
    /\ run_queue # << >>
    /\ Head(run_queue) \in DOMAIN boxes

\* C11: a firing of a box whose receiver holds only Bot, or no type at all,
\* records no TypeError and leaves every vertex (the return vertex included)
\* and every source as they are, also when the registry has no entry for the
\* method name; no TypeError ever names Bot as the receiver type.
C11_BotReceiver ==
    [][ /\ ( /\ FiringNext
             /\ get_types(vertices, sources, boxes[Head(run_queue)].recv) \subseteq { Bot } )
           => UNCHANGED << type_errors, vertices, sources, next_vertex_id >>
        /\ \A i \in 1 .. Len(type_errors') : type_errors'[i].receiver_type # Bot
      ]_vars

\* finish() has returned after firing a box whose receiver is Bot and a box
\* whose receiver holds no type; the registry has no entry for the first one's
\* method name at all
C11_Witness ==
    /\ Quiescent
    /\ type_errors = << >>
    /\ \E b1, b2 \in DOMAIN boxes :
          /\ boxes[b1].seen_types = { Bot }
          /\ get_types(vertices, sources, boxes[b1].ret) = {}
          /\ \A t \in Types : methods[<< t, boxes[b1].method_name >>] = None
          /\ get_types(vertices, sources, boxes[b2].recv) = {}
          /\ get_types(vertices, sources, boxes[b2].ret) = {}

\* C12: a firing looks up every new member of the receiver's type set on its
\* own: each member that resolves has its return type in the return vertex
\* afterwards, and each non-Bot member that misses has its own TypeError
\* afterwards, whatever the other members did.
C12_UnionPerMember ==
    [][ FiringNext =>
          LET box == boxes[Head(run_queue)]
          IN  \A t \in NewTypes(box, vertices, sources) \ { Bot } :
                 IF methods[<< t, box.method_name >>] # None
                 THEN methods[<< t, box.method_name >>] \in get_types(vertices', sources', box.ret)
                 ELSE \E i \in 1 .. Len(type_errors') :
                         type_errors'[i] = [ receiver_type |-> t,
                                             method_name |-> box.method_name,
                                             location |-> box.location ]
      ]_vars

\* a box has fired on a receiver holding two types, one that resolved (its
\* return type is in the return vertex) and one that missed (its error is
\* recorded)
C12_Witness ==
    \E b \in DOMAIN boxes :
        \E t1, t2 \in boxes[b].seen_types :
            /\ t1 # t2
            /\ methods[<< t1, boxes[b].method_name >>] # None
            /\ methods[<< t1, boxes[b].method_name >>] \in get_types(vertices, sources, boxes[b].ret)
            /\ methods[<< t2, boxes[b].method_name >>] = None
            /\ HasError(t2, boxes[b].method_name, boxes[b].location)

\* C13: whenever a step adds a type to a Vertex that is the receiver of a
\* MethodCallBox, that box is on the run queue after the step.
C13_BoxNotified ==
    [][ \A b \in DOMAIN boxes :
            ( /\ boxes[b].recv \in DOMAIN vertices
              /\ TypeKeys(vertices'[boxes[b].recv]) # TypeKeys(vertices[boxes[b].recv]) )
            => b \in Range(run_queue')
      ]_vars

\* the positions of the register calls made with the key (r, n)
RegCalls(r, n) == { i \in 1 .. Len(hist_reg) : hist_reg[i][1] = r /\ hist_reg[i][2] = n }

LastOf(S) == CHOOSE i \in S : \A j \in S : j <= i

\* C14: after any sequence of register calls, resolve(r, n) is the return type
\* of the most recent register call with the key (r, n), and None when there
\* was none: calls with other keys do not affect it, and repeating a call does
\* not change it.
C14_RegisterOverwrites ==
    \A r \in Types, n \in MethodNames :
        resolve(methods, r, n) =
            IF RegCalls(r, n) = {} THEN None ELSE hist_reg[LastOf(RegCalls(r, n))][3]

\* a key was registered, a different key was registered, and the first key
\* was registered again with another return type
C14_Witness ==
    /\ Len(hist_reg) = 3
    /\ hist_reg[1][1] = hist_reg[3][1]
    /\ hist_reg[1][2] = hist_reg[3][2]
    /\ hist_reg[1][3] # hist_reg[3][3]
    /\ << hist_reg[2][1], hist_reg[2][2] >> # << hist_reg[1][1], hist_reg[1][2] >>

\* C15: resolve(r, n) is Some exactly when an earlier register call used a
\* receiver type structurally equal to r and the name n; a registration for
\* Instance{C} does not make Singleton{C}, Nil or another class resolve.
C15_ExactMatch ==
    /\ \A r \in Types, n \in MethodNames :
          (resolve(methods, r, n) # None) <=> (RegCalls(r, n) # {})
    /\ \A r1, r2 \in Types, n \in MethodNames :
          (r1 # r2 /\ RegCalls(r1, n) # {} /\ RegCalls(r2, n) = {})
          => resolve(methods, r2, n) = None

\* a method is registered for Instance{String} only: it resolves there and
\* nowhere else
C15_Witness ==
    \E n \in RegNames :
        /\ resolve(methods, Instance("String"), n) # None
        /\ resolve(methods, Singleton("String"), n) = None
        /\ resolve(methods, Instance("Integer"), n) = None
        /\ resolve(methods, Nil, n) = None
        /\ Len(hist_reg) = MaxRegs

\* C16: resolve(Bot, n) is None for every name n after any sequence of
\* register calls.
C16_BotNeverResolves ==
    \A n \in MethodNames : resolve(methods, Bot, n) = None

\* C17: a method chain r.m1.m2 is inferred end to end: at quiescence, when a
\* type t of r resolves m1 to T1 and T1 resolves m2 to T2, the result vertex
\* of the outer call and every local variable assigned from it hold T2, and
\* neither lookup has a TypeError; the program x = "hello"; y = x.upcase.length
\* ends with y holding Integer and an empty error list.
C17_MethodChain ==
    Quiescent =>
        /\ \A b1, b2 \in DOMAIN boxes :
              boxes[b2].recv = boxes[b1].ret =>
                \A t \in get_types(vertices, sources, boxes[b1].recv) \ { Bot } :
                    LET T1 == resolve(methods, t, boxes[b1].method_name)
                        T2 == resolve(methods, T1, boxes[b2].method_name)
                    IN  (T1 \notin { None, Bot } /\ T2 # None) =>
                          /\ T2 \in get_types(vertices, sources, boxes[b2].ret)
                          /\ ~ HasError(t, boxes[b1].method_name, boxes[b1].location)
                          /\ ~ HasError(T1, boxes[b2].method_name, boxes[b2].location)
                          /\ \A x \in VarNames :
                                << boxes[b2].ret, lenv[x] >> \in committed
                                => T2 \in get_types(vertices, sources, lenv[x])
        /\ installed = << LocalVariableWriteNode("x", StringNode), ChainStmt >> =>
              /\ type_errors = << >>
              /\ get_types(vertices, sources, lenv["y"]) = { Instance("Integer") }

\* x = "hello"; y = x.upcase.length has been installed and finish() has
\* returned: y holds Integer, the inner call's result holds String
C17_Witness ==
    /\ Quiescent
    /\ installed = << LocalVariableWriteNode("x", StringNode), ChainStmt >>
    /\ get_types(vertices, sources, lenv["y"]) = { Instance("Integer") }
    /\ \E b1, b2 \in DOMAIN boxes :
          /\ boxes[b2].recv = boxes[b1].ret
          /\ get_types(vertices, sources, boxes[b1].ret) = { Instance("String") }
          /\ boxes[b2].seen_types = { Instance("String") }

\* the TypeErrors recorded for the call site loc
ErrorsAt(loc) == { i \in 1 .. Len(type_errors) : type_errors[i].location = loc }

\* C18: in a class whose first method writes @name and whose later method
\* calls upcase on a read of @name, the receiver of that call is the vertex of
\* the written value; at quiescence a String write has no error at the call
\* site and an Integer write has exactly one, for (Integer, upcase).
C18_IvarOnClass ==
    \A value \in { StringNode, IntegerNode } :
        ( /\ installed # << >>
          /\ installed[1] \in { ClassWithIvar(value), ClassWithIvarAttr(value) } )
        => /\ 0 \in DOMAIN boxes
           /\ boxes[0].method_name = "upcase"
           /\ boxes[0].recv \in DOMAIN sources
           /\ sources[boxes[0].recv] = LiteralType(value.kind)
           /\ Quiescent =>
                 IF value = StringNode
                 THEN ErrorsAt(boxes[0].location) = {}
                 ELSE /\ Cardinality(ErrorsAt(boxes[0].location)) = 1
                      /\ HasError(Instance("Integer"), "upcase", boxes[0].location)

\* the class with an Integer write and the class with a String write have
\* both been installed and analysed: one error
C18_Witness ==
    /\ Quiescent
    /\ installed = << ClassWithIvar(IntegerNode), ClassWithIvar(StringNode) >>
    /\ Len(type_errors) = 1
    /\ type_errors[1].receiver_type = Instance("Integer")
    /\ boxes[1].seen_types = { Instance("String") }

C20_ReceiverlessCall ==
    [][ \A name \in MethodNames \cup {"puts"} :
          /\ ( /\ name \notin AttrDecls
               /\ installed' = Append(installed, CallNodeNoReceiver(name, << >>)) )
             => /\ last' = NoVertex
                /\ UNCHANGED << vertices, sources, next_vertex_id, methods, boxes, run_queue,
                                run_queue_set, next_box_id, type_errors, changes, scopes, lenv >>
          /\ ( /\ name \notin AttrDecls
               /\ installed' = Append(installed,
                      ClassNode("User", << DefNode("greet",
                                              << CallNodeNoReceiver(name, << >>) >>) >>)) )
             => /\ last' = NoVertex
                /\ UNCHANGED << vertices, sources, next_vertex_id, methods, boxes, run_queue,
                                run_queue_set, next_box_id, type_errors, changes, scopes, lenv >>
      ]_vars

\* puts has been installed after x = "hello": the two nodes of the write are
\* all there is
C20_Witness ==
    /\ installed = << LocalVariableWriteNode("x", StringNode), CallNodeNoReceiver("puts", << >>) >>
    /\ last = NoVertex
    /\ next_vertex_id = 2
    /\ boxes = << >>

\* the statement the last InstallStmt step installed
Installing(node) == installed' = Append(installed, node)

\* C21: an attribute declaration installed while no ClassScope is on the scope
\* stack, at top level or inside a method that is in no class, changes neither
\* the registry nor the graph nor the error list, and yields no node.
C21_AttrOutsideClass ==
    [][ \A decl \in AttrDecls :
          ( \/ Installing(CallNodeNoReceiver(decl, << "name" >>))
            \/ Installing(DefNode("greet", << CallNodeNoReceiver(decl, << "name" >>) >>)) )
          => /\ last' = NoVertex
             /\ UNCHANGED << methods, vertices, sources, next_vertex_id, boxes, next_box_id,
                             run_queue, run_queue_set, changes, type_errors, scopes, lenv >>
      ]_vars

\* attr_accessor :name has been installed at top level after a write of x: no
\* class has a method name or name=
C21_Witness ==
    /\ installed = << LocalVariableWriteNode("x", StringNode),
                      CallNodeNoReceiver("attr_accessor", << "name" >>) >>
    /\ \A t \in Types : methods[<< t, "name" >>] = None /\ methods[<< t, "name=" >>] = None
    /\ next_vertex_id = 2

\* C22: installing a read of a local variable returns the variable's current
\* binding and changes nothing, so a second read with no write in between
\* returns the same VertexId; a read of a name that was never written returns
\* None, allocates nothing and records no error.
C22_LocalRead ==
    [][ \A x \in VarNames :
          Installing(LocalVariableReadNode(x)) =>
            /\ last' = lenv[x]
            /\ UNCHANGED << lenv, vertices, sources, next_vertex_id, boxes, next_box_id,
                            run_queue, run_queue_set, changes, type_errors, methods, scopes >>
            /\ ( /\ installed # << >>
                 /\ installed[Len(installed)] = LocalVariableReadNode(x) ) => last' = last
            /\ lenv[x] = NoVertex => last' = NoVertex
      ]_vars

\* x has been written and then read: the read returned the vertex of the write
C22_Witness ==
    /\ installed = << LocalVariableWriteNode("x", StringNode), LocalVariableReadNode("x") >>
    /\ last # NoVertex
    /\ last = lenv["x"]
    /\ last \in DOMAIN vertices
    /\ next_vertex_id = 2

\* C30: while statements are installed no deferred edge is committed and no box
\* fires: every vertex has an empty type set and no outgoing edge, every box is
\* still queued and has seen nothing, and the error list is empty; a box fires
\* in finish() only when the ChangeSet is empty, so the edge of every local
\* write has been committed by then.
C30_InstallDefers ==
    [][ /\ pc = "install" =>
              /\ committed = {}
              /\ type_errors = << >>
              /\ \A v \in DOMAIN vertices :
                    TypeKeys(vertices[v]) = {} /\ vertices[v].next = << >>
              /\ \A b \in DOMAIN boxes :
                    boxes[b].seen_types = {} /\ b \in Range(run_queue)
        /\ ( /\ pc = "finish"
             /\ << boxes, run_queue, type_errors >>' # << boxes, run_queue, type_errors >> )
           => /\ changes = << >>
              /\ \A x \in VarNames :
                    lenv[x] # NoVertex => \E e \in committed : e[2] = lenv[x]
      ]_vars

\* finish() has committed the edge of x = "..." and the box of x.upcase has not
\* fired yet: x already holds String
C30_Witness ==
    /\ installed = << LocalVariableWriteNode("x", StringNode),
                      CallNode(LocalVariableReadNode("x"), "upcase") >>
    /\ pc = "finish"
    /\ changes = << >>
    /\ committed # {}
    /\ TypeKeys(vertices[lenv["x"]]) = { Instance("String") }
    /\ run_queue = << 0 >>
    /\ boxes[0].seen_types = {}

\* C24: execute_box on a registered id takes the box out of the map for as
\* long as the executor runs and puts it back under the same id when it
\* returns, leaving every other box and the run queue as they were; on an id
\* that is not registered the executor is not run, the result is None and the
\* manager is unchanged.
C24_ExecuteBox ==
    [][ /\ executing.phase = "running" => executing.id \notin DOMAIN boxes
        /\ executing' # executing =>
              /\ UNCHANGED << run_queue, run_queue_set, next_box_id >>
              /\ \A b \in ((DOMAIN boxes) \cup (DOMAIN boxes')) \ {executing'.id} :
                    b \in DOMAIN boxes /\ b \in DOMAIN boxes' /\ boxes'[b] = boxes[b]
        /\ (executing.phase = "idle" /\ executing'.phase = "running") =>
              /\ executing'.id \in DOMAIN boxes
              /\ executing'.id \notin DOMAIN boxes'
              /\ executing'.box = boxes[executing'.id]
        /\ (executing.phase = "running" /\ executing'.phase = "idle") =>
              /\ executing'.id = executing.id
              /\ executing'.result = "Some"
              /\ executing.id \in DOMAIN boxes'
              /\ boxes'[executing.id] = executing.box
        /\ (executing' # executing /\ executing.phase = "idle" /\ executing'.phase = "idle") =>
              /\ executing'.id \notin DOMAIN boxes
              /\ executing'.result = "None"
              /\ boxes' = boxes
      ]_vars

\* execute_box has returned Some for box 0 with box 1 registered beside it: box 0
\* is back in the map with what the executor did to it, box 1 is as registered
C24_Witness ==
    /\ executing.phase = "idle"
    /\ executing.result = "Some"
    /\ executing.id = 0
    /\ DOMAIN boxes = {0, 1}
    /\ boxes[0].seen_types # {}
    /\ boxes[1].seen_types = {}
    /\ run_queue = << 1, 0 >>

\* C29: while a box is detached for its own firing, an add_run for its id does
\* not put it on the run queue.
C29_NotEnqueuedWhileDetached ==
    [][ ( /\ executing.phase = "running"
          /\ executing'.phase = "running"
          /\ executing.id \notin Range(run_queue) )
        => executing.id \notin Range(run_queue')
      ]_vars

\* C23: the error list only grows at its end, and only while a box fires: the
\* new entries are those of the box at the head of the run queue, one for each
\* new receiver type that misses, the types that resolve in the same firing
\* still reach the return vertex, and the boxes queued behind stay queued for
\* the same finish().
C23_ErrorsInFiringOrder ==
    [][ /\ Len(type_errors') >= Len(type_errors)
        /\ SubSeq(type_errors', 1, Len(type_errors)) = type_errors
        /\ type_errors' # type_errors =>
              /\ pc = "finish" /\ pc' = "finish"
              /\ run_queue # << >>
              /\ run_queue' = Tail(run_queue)
              /\ LET box == boxes[Head(run_queue)]
                     new == { t \in NewTypes(box, vertices, sources) \ { Bot } :
                                 methods[<< t, box.method_name >>] = None }
                     hit == NewTypes(box, vertices, sources) \ (new \cup { Bot })
                 IN  /\ Len(type_errors') = Len(type_errors) + Cardinality(new)
                     /\ \A i \in (Len(type_errors) + 1) .. Len(type_errors') :
                           /\ type_errors'[i].location = box.location
                           /\ type_errors'[i].method_name = box.method_name
                           /\ type_errors'[i].receiver_type \in new
                     /\ \A t \in hit :
                           methods[<< t, box.method_name >>]
                               \in get_types(vertices', sources', box.ret)
      ]_vars

\* two boxes have fired and each recorded an error: the error of the box that
\* was queued first comes first
C23_Witness ==
    /\ pc = "done"
    /\ Len(type_errors) = 2
    /\ type_errors[1].location = 0
    /\ type_errors[2].location = 1
    /\ \A b \in DOMAIN boxes : boxes[b].seen_types # {}

\* C25: what a Vertex displays is the same for every iteration order of its
\* types map: untyped for no type, the name of the type for one type, and for
\* two or more the names in ascending order, separated by " | " and put in
\* parentheses, so (Integer | String) for String and Integer.
C25_DisplaySorted ==
    \A v \in DOMAIN vertices :
        LET ks == TypeKeys(vertices[v])
        IN  /\ \A o1, o2 \in Orderings(ks) : Vertex_show(o1) = Vertex_show(o2)
            /\ ks = {} => Vertex_show(<< >>) = "untyped"
            /\ \A t \in ks : ks = {t} => Vertex_show(<< t >>) = show(t)
            /\ ks = { Instance("String"), Instance("Integer") } =>
                  \A o \in Orderings(ks) : Vertex_show(o) = "(Integer | String)"
            /\ Cardinality(ks) >= 2 =>
                  \E asc \in Orderings(ks) :
                      /\ \A i, j \in 1 .. Len(asc) :
                            i < j => NameRank(show(asc[i])) < NameRank(show(asc[j]))
                      /\ \A o \in Orderings(ks) :
                            Vertex_show(o) =
                              "(" \o join([i \in 1 .. Len(asc) |-> show(asc[i])], " | ") \o ")"

\* a Vertex holds String and Integer, String having been added first
C25_Witness ==
    /\ work = << >>
    /\ Len(hist_edges) = 2
    /\ hist_edges[1].src \in DOMAIN sources
    /\ sources[hist_edges[1].src] = Instance("String")
    /\ hist_edges[2].dst = hist_edges[1].dst
    /\ TypeKeys(vertices[hist_edges[1].dst]) = { Instance("String"), Instance("Integer") }

\* C26: every call of add_edge returns, whatever the graph: the calls of
\* propagate_types it leads to come to an end, and never more of them are
\* pending than the vertices can forward types once each.
C26_AddEdgeTerminates ==
    /\ [](Len(work) < StackCap)
    /\ (work # << >>) ~> (work = << >>)

\* add_edge has returned on a graph with the cycle u -> v -> u: the type went
\* round and came back to u from v
C26_Witness ==
    /\ work = << >>
    /\ \E u, v \in DOMAIN vertices :
          /\ u # v
          /\ v \in Range(vertices[u].next)
          /\ u \in Range(vertices[v].next)
          /\ \E t \in Types : v \in vertices[u].types[t] /\ u \in vertices[v].types[t]

\* the type sets of the vertices
TypeSets(vs) == [v \in DOMAIN vs |-> TypeKeys(vs[v])]

\* C27: a call of propagate_types whose types the target already holds makes no
\* further call and changes no type set; an add_edge call that repeats an
\* earlier one changes no type set, and the call it makes carries only types
\* its target already holds.
C27_DeltaOnly ==
    [][ /\ ( /\ work # << >>
             /\ hist_edges' = hist_edges
             /\ Head(work).dst_id \in DOMAIN vertices
             /\ Head(work).types \subseteq TypeKeys(vertices[Head(work).dst_id]) )
           => /\ work' = Tail(work)
              /\ TypeSets(vertices') = TypeSets(vertices)
        /\ ( /\ Len(hist_edges') = Len(hist_edges) + 1
             /\ \E i \in 1 .. Len(hist_edges) :
                   hist_edges[i].known /\ hist_edges[i] = hist_edges'[Len(hist_edges')] )
           => /\ TypeSets(vertices') = TypeSets(vertices)
              /\ \A i \in 1 .. Len(work') :
                    work'[i].types \subseteq get_types(vertices', sources', work'[i].dst_id)
      ]_vars

\* an edge from a node that holds a type has been added twice and both calls
\* have returned
C27_Witness ==
    /\ work = << >>
    /\ \E i, j \in 1 .. Len(hist_edges) :
          /\ i < j
          /\ hist_edges[i] = hist_edges[j]
          /\ hist_edges[i].known
          /\ get_types(vertices, sources, hist_edges[i].src) # {}
          /\ vertices[hist_edges[i].dst].next # << >>

\* C28: an add_edge call whose src is neither a Vertex nor a Source changes no
\* Vertex, no Source, and makes no call of propagate_types.
C28_UnknownSrcNoOp ==
    [][ ( /\ Len(hist_edges') = Len(hist_edges) + 1
          /\ ~ IsNode(hist_edges'[Len(hist_edges')].src) )
        => /\ vertices' = vertices
           /\ sources' = sources
           /\ next_vertex_id' = next_vertex_id
           /\ work' = << >>
      ]_vars

\* add_edge has been called with a src that was no node, after a Vertex got a
\* type and an edge: the graph is as the earlier calls left it
C28_Witness ==
    /\ Len(hist_edges) = 3
    /\ hist_edges[1].known /\ hist_edges[2].known
    /\ ~ hist_edges[3].known
    /\ hist_edges[3].src = next_vertex_id
    /\ work = << >>
    /\ \E v \in DOMAIN vertices : TypeKeys(vertices[v]) # {} /\ vertices[v].next # << >>

\* C31: after class User with @name = value in initialize and attr_reader :name
\* behind it is installed, the return type registered for (Instance{User}, name)
\* is a type held by the node the write bound to @name.
C31_ReaderTypeOfNode ==
    [][ \A value \in { StringNode, IntegerNode } :
          Installing(ClassWithIvarAttr(value)) =>
            methods'[<< Instance("User"), "name" >>]
                \in get_types(vertices', sources', next_vertex_id)
      ]_vars

\* C32: installing a class in which @name is written twice and then read as a
\* receiver allocates the two values and the return vertex of the call and
\* nothing else, defers no edge, and makes the node of the second write the
\* receiver of the call.
C32_IvarWriteRebinds ==
    [][ \A first, second \in { StringNode, IntegerNode } :
          Installing(ClassTwoWrites(first, second)) =>
            /\ next_vertex_id' = next_vertex_id + 3
            /\ DOMAIN sources' = (DOMAIN sources) \cup { next_vertex_id, next_vertex_id + 1 }
            /\ sources'[next_vertex_id] = LiteralType(first.kind)
            /\ sources'[next_vertex_id + 1] = LiteralType(second.kind)
            /\ DOMAIN vertices' = (DOMAIN vertices) \cup { next_vertex_id + 2 }
            /\ changes' = changes
            /\ next_box_id' = next_box_id + 1
            /\ boxes'[next_box_id].recv = next_vertex_id + 1
            /\ boxes'[next_box_id].ret = next_vertex_id + 2
      ]_vars

\* @name = 1 and then @name = "..." have been installed in class User: the call
\* on the read of @name has the String of the second write as its receiver
C32_Witness ==
    /\ installed = << ClassTwoWrites(IntegerNode, StringNode) >>
    /\ next_vertex_id = 3
    /\ boxes[0].recv = 1
    /\ sources[1] = Instance("String")
    /\ changes = << >>

\* C33: in a class that writes @name in two methods and calls upcase on a read of
\* @name in a third, the call is checked against the type of each write: at
\* quiescence each of the two types that has no upcase has its TypeError at the
\* call site.
C33_EveryWriteChecked ==
    \A first, second \in { StringNode, IntegerNode } :
        ( /\ installed # << >>
          /\ installed[1] = ClassTwoWrites(first, second)
          /\ Quiescent )
        => \A value \in { first, second } :
              methods[<< LiteralType(value.kind), "upcase" >>] = None
              => HasError(LiteralType(value.kind), "upcase", boxes[0].location)

\* C35: in x = 123; x = puts; x.upcase the second write has a value the
\* installer does not model, so the call is not reported against Integer.
C35_UnmodelledValueNoError ==
    ( /\ installed # << >>
      /\ installed[1] = UnmodelledRewrite )
    => ~ HasError(Instance("Integer"), "upcase", 0)

\* C36: in x = "s"; y = x.upcase; x = 1 the receiver of the call is the vertex
\* of the first write, which is not the vertex x is bound to afterwards; it
\* never holds Integer, and the call records no error.
C36_WriteAllocatesFresh ==
    ( /\ installed # << >>
      /\ installed[1] = ReadThenRewrite )
    => /\ boxes[0].recv \in DOMAIN vertices
       /\ boxes[0].recv # lenv["x"]
       /\ TypeKeys(vertices[boxes[0].recv]) \subseteq { Instance("String") }
       /\ ErrorsAt(boxes[0].location) = {}
       /\ Quiescent => TypeKeys(vertices[boxes[0].recv]) = { Instance("String") }
       /\ (Quiescent /\ Len(installed) = 1) =>
             /\ TypeKeys(vertices[lenv["x"]]) = { Instance("Integer") }
             /\ TypeKeys(vertices[lenv["y"]]) = { Instance("String") }

\* the three statements have been installed and analysed: the call saw String
\* only and nothing is reported
C36_Witness ==
    /\ installed = << ReadThenRewrite >>
    /\ Quiescent
    /\ boxes[0].seen_types = { Instance("String") }
    /\ TypeKeys(vertices[lenv["x"]]) = { Instance("Integer") }
    /\ type_errors = << >>

\* the kinds and names of the frames of a scope stack, bottom first
Frames(sc) == [i \in 1 .. Len(sc) |-> << sc[i].kind, sc[i].name >>]

\* C37: the scope stack is empty before and after every top-level statement, so
\* current_class_name() is None between statements; and a class or method
\* definition installed inside class User leaves the frames of the stack as
\* they were.
C37_ScopesBalanced ==
    /\ scopes = << >>
    /\ current_class_name(scopes) = NoClass
    /\ \A node \in { n \in TopLevel : n.kind \in {"class", "def"} } :
          \A hash_first \in { Bot } :
             LET e == [Env(hash_first) EXCEPT !.scopes = enter_class(@, "User")]
             IN  Frames(install_node(e, node).env.scopes) = Frames(e.scopes)

\* a class with nested definitions and a method with an empty body have been
\* installed
C37_Witness ==
    /\ Len(installed) = 2
    /\ installed[1].kind = "class"
    /\ \E i \in 1 .. Len(installed[1].kids) : installed[1].kids[i].kind = "class"
    /\ installed[2] = DefNode("greet", << >>)
    /\ scopes = << >>

\* the edges add_edge has been called with while their src was a node
KnownEdges ==
    { << hist_edges[i].src, hist_edges[i].dst >> :
        i \in { j \in 1 .. Len(hist_edges) : hist_edges[j].known } }

RECURSIVE ReachSet(_, _)
\* the nodes reached from the nodes S over at most n of those edges
ReachSet(S, n) ==
    IF n = 0 THEN S
    ELSE ReachSet(S \cup { e[2] : e \in { d \in KnownEdges : d[1] \in S } }, n - 1)

\* C38: once every add_edge call has returned, the type set of each Vertex is
\* the set of the types of the Sources from which it is reached over the edges
\* added, which depends on the set of edges and not on the order of the calls.
C38_EdgeOrderIrrelevant ==
    work = << >> =>
        \A v \in DOMAIN vertices :
            TypeKeys(vertices[v]) =
                { sources[src] : src \in { n \in DOMAIN sources : v \in ReachSet({n}, MaxCalls) } }

\* add_edge(v1, v2) was called before add_edge(src, v1): v2 holds the type of src
C38_Witness ==
    /\ work = << >>
    /\ Len(hist_edges) = 2
    /\ hist_edges[1].src \in DOMAIN vertices
    /\ hist_edges[2].src \in DOMAIN sources
    /\ hist_edges[2].dst = hist_edges[1].src
    /\ hist_edges[1].dst # hist_edges[1].src
    /\ TypeKeys(vertices[hist_edges[1].dst]) = { sources[hist_edges[2].src] }

\* the step of finish() that inserted type t into the types map of vertex v
InsertedAt(v, t) ==
    CHOOSE i \in 1 .. Len(hist_ins) : << v, t >> \in hist_ins[i]

\* C34: the TypeErrors one firing appends are in the order in which their
\* receiver types were inserted into the receiver's types map.
C34_ErrorsInInsertionOrder ==
    [][ ( /\ type_errors' # type_errors
          /\ run_queue # << >>
          /\ Head(run_queue) \in DOMAIN boxes
          /\ boxes[Head(run_queue)].recv \in DOMAIN vertices )
        => LET recv == boxes[Head(run_queue)].recv
           IN  \A i, j \in (Len(type_errors) + 1) .. Len(type_errors') :
                  i < j => InsertedAt(recv, type_errors'[i].receiver_type)
                             <= InsertedAt(recv, type_errors'[j].receiver_type)
      ]_vars

====
